---------------------------- MODULE Spec2Model ----------------------------
(***************************************************************************)
(* A model of ergonode's process registrar / message router                *)
(* (registrar.go: createRegistrar, registrar.run and the request           *)
(* functions) and of the supervisor restart loop (supervisor.go).          *)
(*                                                                         *)
(* The registrar coordinator is one goroutine that selects over eleven     *)
(* buffered channels.  Go's select picks among the ready cases at random,  *)
(* so every handler below is enabled whenever its own channel is non-empty.*)
(***************************************************************************)
EXTENDS Integers, Sequences, FiniteSets, TLC

(***************************************************************************)
(* Bounds of the model.                                                    *)
(***************************************************************************)
MaxCalls == 3
    \* requests issued by callers of the registry (Spec)
MaxProcs == 2
    \* PIDs minted by createNewPID
MaxRouteCalls == 3
    \* calls issued in the local routing scenario (RouteSpec)
MaxRemoteCalls == 2
    \* calls issued in the remote routing scenario (RemoteSpec)
MaxMailbox == 2
    \* largest mailbox size a process is created with
MaxChildren == 3
    \* child specs of the supervisor (SupSpec)
MaxDeaths == 2
    \* children that die by themselves (SupSpec)
MaxIntensity == 1
    \* largest restart intensity of a strategy (RateSpec)
MaxPeriod == 2
    \* largest restart period of a strategy, in ticks (RateSpec)
MaxTicks == 2
    \* ticks of the clock (RateSpec)

(***************************************************************************)
(* Program constants.                                                      *)
(***************************************************************************)
startPID == 1000
RegChanCap == 10
RouteChanCap == 100
DefaultProcessMailboxSize == 100
ReplyChanCap == 2
SupervisorRestartIntensity == 10
SupervisorRestartPeriod == 10

nodeName == "n1"
    \* registrar.nodeName: node.FullName of the local node
RemoteNodes == {"n2"}
Names == {"a", "b"}
NoName == ""

(***************************************************************************)
(* etf.Pid: (Node, Id, Serial, Creation), compared structurally.           *)
(***************************************************************************)
Pid(node, id) == [node |-> node, id |-> id, serial |-> 1, creation |-> 1]
NilPid == [node |-> "", id |-> 0, serial |-> 0, creation |-> 0]
LocalPids == {Pid(nodeName, startPID + k) : k \in 1..MaxProcs}
RemotePids == {Pid(n, startPID + 1) : n \in RemoteNodes}
    \* the PIDs a caller may pass: local ones (registered or not) and remote ones
AnyPids == LocalPids \cup RemotePids

VARIABLES
    names,      \* registrar.names:     name -> Pid
    processes,  \* registrar.processes: Pid  -> Process
    peers,      \* registrar.peers:     the node names that have a peer
    channels,   \* registrar.channels:  one FIFO per request kind
    nextPID,    \* registrar.nextPID
    mailBox,    \* Process.mailBox of every local PID
    coord,      \* the coordinator goroutine: idle, or blocked in a send
    tasks,      \* the connect goroutines launched by the coordinator
    peerSend,   \* peer.send of every remote node: the frames pushed so far
    nodeDowns,  \* the node names passed to monitor.NodeDown
    reply,      \* the answer on the err channel of each synchronous call
    caller,     \* a caller running RegisterName; UnregisterName; RegisterName
    budget,     \* number of calls the callers of this scenario may issue
    ncalls,     \* number of calls issued so far: names each call (history)
    sent,       \* the destination each route call was given (history)
    served,     \* the request the coordinator took last, and the call number of the
                \* last request it took from each channel (history)
    received,   \* the tuples each process took from its mailbox, in order (history)
    handled,    \* per route call: times handled for a remote node (history)
    connects,   \* per route call: connect goroutines launched (history)
    connected,  \* per route call: the attempt (1, 2 or 3) whose connect
                \* registered the peer last (history)
    envHeap,    \* the env maps allocated by SetEnv; Process.env is an index
                \* into it, or 0 for a nil map
    handle,     \* the Process copy GetProcessByPid/Name returned last, or none
    nodeDone,   \* the node's context is cancelled
    killed,     \* the PIDs of the processes whose Kill was called
    call,       \* the CallWithTimeout in progress or finished, or none
    replyChan   \* the reply channel of the process that calls

\* the state of Process objects outside the registrar's maps
proc == <<envHeap, handle, nodeDone, killed, call, replyChan>>

regVars == <<names, processes, peers, channels, nextPID, mailBox, coord, tasks,
             peerSend, nodeDowns, reply, budget, ncalls, sent, served,
             received, handled, connects, connected, proc>>

VARIABLES
    svSpec,     \* spec of Supervisor.loop: the child specs and the strategy
                \* (its type, intensity and period)
    children,   \* p.children: the child handle of each spec, or none
    waitTerminatingProcesses,
    svMailBox,  \* p.mailBox of the supervisor process
    svState,    \* the supervisor's loop: running, panicked or returned
    alive,      \* the PIDs of the children that run
    stopping,   \* the running children that were told Stop("shutdown")
    svSpawned,  \* number of children spawned so far
    exits,      \* the PIDs whose EXIT the loop has taken, in order (history)
    died,       \* the PIDs of the children that died by themselves (history)
    now,        \* the time, in ticks
    restartTimes \* the times at which the loop handled $restart (history)

sup == <<svSpec, children, waitTerminatingProcesses, svMailBox, svState, alive,
         stopping, svSpawned, exits, died, now, restartTimes>>

vars == <<regVars, caller, sup>>

\* the supervisor is not part of the registrar scenarios
SupervisorUnused ==
    /\ svSpec = [children |-> <<>>, strategy |-> "one_for_one",
                 intensity |-> SupervisorRestartIntensity,
                 period |-> SupervisorRestartPeriod]
    /\ children = <<>>
    /\ waitTerminatingProcesses = <<>>
    /\ svMailBox = <<>>
    /\ svState = "unused"
    /\ alive = {}
    /\ stopping = {}
    /\ svSpawned = 0
    /\ exits = <<>>
    /\ died = <<>>
    /\ now = 0
    /\ restartTimes = <<>>

ChanNames == {"process", "unregisterProcess", "name", "unregisterName",
              "peer", "unregisterPeer", "routeByPid", "routeByName",
              "routeByTuple", "routeRaw", "commands"}

Idle == [st |-> "idle"]

(***************************************************************************)
(* Map helpers: Go's m[k] = v and delete(m, k).                            *)
(***************************************************************************)
MapPut(m, k, v) == [x \in DOMAIN m \cup {k} |-> IF x = k THEN v ELSE m[x]]
MapDelete(m, k) == [x \in DOMAIN m \ {k} |-> m[x]]
EmptyMap == [x \in {} |-> 0]
Count(m, k) == IF k \in DOMAIN m THEN m[k] ELSE 0

Range(s) == {s[i] : i \in DOMAIN s}
Last(s) == s[Len(s)]
Front(s) == SubSeq(s, 1, Len(s) - 1)

(***************************************************************************)
(* etf.Term values used as destinations: a Pid, a string, an Atom, a Tuple.*)
(***************************************************************************)
PidTerm(p) == [type |-> "pid", pid |-> p]
String(s) == [type |-> "string", str |-> s]
Atom(s) == [type |-> "atom", atom |-> s]
Tuple(es) == [type |-> "tuple", elems |-> es]
    \* a term of another type, which route has no case for
IntTerm(n) == [type |-> "int", int |-> n]

\* the nil *Process
NoHandle == [nil |-> TRUE]

\* no CallWithTimeout was made
NoCall == [st |-> "none"]

(***************************************************************************)
(* createRegistrar: empty maps, empty channels, nextPID = startPID.        *)
(***************************************************************************)
InitRegistrar ==
    /\ names = EmptyMap
    /\ processes = EmptyMap
    /\ peers = {}
    /\ channels = [c \in ChanNames |-> <<>>]
    /\ nextPID = startPID
    /\ mailBox = [p \in LocalPids |-> <<>>]
    /\ coord = Idle
    /\ tasks = {}
    /\ peerSend = [n \in RemoteNodes |-> <<>>]
    /\ nodeDowns = <<>>
    /\ reply = EmptyMap
    /\ ncalls = 0
    /\ sent = EmptyMap
    /\ served = [last |-> <<>>, seq |-> [c \in ChanNames |-> 0]]
    /\ received = [p \in LocalPids |-> <<>>]
    /\ handled = EmptyMap
    /\ connects = EmptyMap
    /\ connected = EmptyMap
    /\ envHeap = <<>>
    /\ handle = NoHandle
    /\ nodeDone = FALSE
    /\ killed = {}
    /\ call = NoCall
    /\ replyChan = <<>>

NoCaller == [pc |-> "none"]

(***************************************************************************)
(* A buffered Go channel: a send appends and blocks while the channel is   *)
(* full, a receive takes the oldest element.                               *)
(***************************************************************************)
Enqueue(chs, c, req) == [chs EXCEPT ![c] = Append(@, req)]

Capacity(c) ==
    IF c \in {"routeByPid", "routeByName", "routeByTuple", "routeRaw", "commands"}
    THEN RouteChanCap
    ELSE RegChanCap

HasRoom(c) == Len(channels[c]) < Capacity(c)

ReceiveNewest(q) == [msg |-> Last(q), rest |-> Front(q)]

Receive(q) == [msg |-> Head(q), rest |-> Tail(q)]

\* a call may be issued: the scenario's budget is not used up
MayCall == ncalls < budget

\* call number ncalls + 1 is issued: the calls are numbered in the order
\* they enqueue their requests
Issued == ncalls' = ncalls + 1

(***************************************************************************)
(* createNewPID: atomic.AddUint32(&r.nextPID, 1), then the Pid of the      *)
(* local node with that Id.                                                *)
(***************************************************************************)
createNewPIDBeforeAdd == Pid(nodeName, nextPID)

createNewPID == Pid(nodeName, nextPID + 1)

(***************************************************************************)
(* RegisterProcessExt(name, object, opts): mints the PID, builds the       *)
(* Process and sends the request; the caller then waits on req.err.        *)
(***************************************************************************)
RegisterProcessExt(name, size) ==
    /\ MayCall
    /\ nextPID < startPID + MaxProcs
    /\ HasRoom("process")
    /\ LET pid == createNewPID
           process == [self |-> pid, name |-> name, mailboxSize |-> size,
                       env |-> 0]
       IN  channels' = Enqueue(channels, "process",
                 [name |-> name, process |-> process,
                  id |-> ncalls + 1])
    /\ nextPID' = nextPID + 1
    /\ reply' = MapPut(reply, ncalls + 1, "pending")
    /\ Issued
    /\ UNCHANGED <<sup, connected, proc, names, processes, peers, mailBox, coord, tasks, peerSend,
                   nodeDowns, caller, budget, sent, served, received, handled,
                   connects>>

(***************************************************************************)
(* UnregisterProcess(pid): fire and forget.                                *)
(***************************************************************************)
UnregisterProcess(pid) ==
    /\ MayCall
    /\ HasRoom("unregisterProcess")
    /\ channels' = Enqueue(channels, "unregisterProcess",
                           [pid |-> pid, id |-> ncalls + 1])
    /\ Issued
    /\ UNCHANGED <<sup, connected, proc, names, processes, peers, nextPID, mailBox, coord, tasks,
                   peerSend, nodeDowns, reply, caller, budget, sent, served,
                   received, handled, connects>>

(***************************************************************************)
(* RegisterName(name, pid): sends the request and waits on req.err.        *)
(* SendRegisterName is the send; the caller's own state is left to the     *)
(* action that uses it.                                                    *)
(***************************************************************************)
SendRegisterName(name, pid) ==
    /\ HasRoom("name")
    /\ channels' = Enqueue(channels, "name",
                           [name |-> name, pid |-> pid,
                            id |-> ncalls + 1])
    /\ reply' = MapPut(reply, ncalls + 1, "pending")
    /\ Issued
    /\ UNCHANGED <<sup, connected, proc, names, processes, peers, nextPID, mailBox, coord, tasks,
                   peerSend, nodeDowns, budget, sent, served, received,
                   handled, connects>>

RegisterName(name, pid) ==
    /\ MayCall
    /\ SendRegisterName(name, pid)
    /\ UNCHANGED caller

(***************************************************************************)
(* UnregisterName(name): fire and forget.                                  *)
(***************************************************************************)
SendUnregisterName(name) ==
    /\ HasRoom("unregisterName")
    /\ channels' = Enqueue(channels, "unregisterName",
                           [name |-> name, id |-> ncalls + 1])
    /\ Issued
    /\ UNCHANGED <<sup, connected, proc, names, processes, peers, nextPID, mailBox, coord, tasks,
                   peerSend, nodeDowns, reply, budget, sent, served, received,
                   handled, connects>>

UnregisterName(name) ==
    /\ MayCall
    /\ SendUnregisterName(name)
    /\ UNCHANGED caller

(***************************************************************************)
(* RegisterPeer(name, peer) waits on req.err; UnregisterPeer(name) is fire *)
(* and forget.  task names the connect goroutine that registers the peer   *)
(* (0: none).                                                              *)
(***************************************************************************)
PeerRequest(node, task) ==
    [name |-> node, task |-> task, id |-> ncalls + 1]

RegisterPeer(node) ==
    /\ MayCall
    /\ HasRoom("peer")
    /\ channels' = Enqueue(channels, "peer", PeerRequest(node, 0))
    /\ reply' = MapPut(reply, ncalls + 1, "pending")
    /\ Issued
    /\ UNCHANGED <<sup, connected, proc, names, processes, peers, nextPID, mailBox, coord, tasks,
                   peerSend, nodeDowns, caller, budget, sent, served, received,
                   handled, connects>>

UnregisterPeer(node) ==
    /\ MayCall
    /\ HasRoom("unregisterPeer")
    /\ channels' = Enqueue(channels, "unregisterPeer",
                           [name |-> node, id |-> ncalls + 1])
    /\ Issued
    /\ UNCHANGED <<sup, connected, proc, names, processes, peers, nextPID, mailBox, coord, tasks,
                   peerSend, nodeDowns, reply, caller, budget, sent, served,
                   received, handled, connects>>

(***************************************************************************)
(* registrar.route(from, to, message): a type switch on the destination.   *)
(* RouteChannel is the channel the request goes to ("none": nothing is     *)
(* sent), RouteRequest the request built.                                  *)
(***************************************************************************)
RouteChannel(to) ==
    CASE to.type = "pid" -> "routeByPid"
      [] to.type = "tuple" -> IF Len(to.elems) = 2 THEN "routeByTuple" ELSE "none"
      [] to.type = "string" -> "routeByName"
      [] to.type = "atom" -> "routeByName"
      [] OTHER -> "none"

RouteRequest(from, to, message, id) ==
    CASE to.type = "pid" ->
            [from |-> from, pid |-> to.pid, message |-> message,
             retries |-> 0, id |-> id]
      [] to.type = "tuple" ->
            [from |-> from, tuple |-> to.elems, message |-> message,
             retries |-> 0, id |-> id]
      [] to.type = "string" ->
            [from |-> from, name |-> to.str, message |-> message,
             retries |-> 0, id |-> id]
      [] to.type = "atom" ->
            [from |-> from, name |-> to.atom, message |-> message,
             retries |-> 0, id |-> id]

route(chs, from, to, message, id) ==
    IF RouteChannel(to) = "none"
    THEN chs
    ELSE Enqueue(chs, RouteChannel(to), RouteRequest(from, to, message, id))

(***************************************************************************)
(* Process.Send(to, message) of a process whose PID is from: it calls      *)
(* registrar.route.  The payload is the number of the call.                *)
(***************************************************************************)
Send(from, to) ==
    /\ MayCall
    /\ RouteChannel(to) # "none" => HasRoom(RouteChannel(to))
    /\ channels' = route(channels, from, to, ncalls + 1, ncalls + 1)
    /\ sent' = MapPut(sent, ncalls + 1, [from |-> from, to |-> to])
    /\ Issued
    /\ UNCHANGED <<sup, connected, proc, names, processes, peers, nextPID, mailBox, coord, tasks,
                   peerSend, nodeDowns, reply, caller, budget, served, received,
                   handled, connects>>

(***************************************************************************)
(* registrar.routeRaw(nodename, message).                                  *)
(***************************************************************************)
routeRaw(node) ==
    /\ MayCall
    /\ HasRoom("routeRaw")
    /\ channels' = Enqueue(channels, "routeRaw",
                           [nodename |-> node, message |-> ncalls + 1,
                            retries |-> 0, id |-> ncalls + 1])
    /\ sent' = MapPut(sent, ncalls + 1, [from |-> NilPid, to |-> String(node)])
    /\ Issued
    /\ UNCHANGED <<sup, connected, proc, names, processes, peers, nextPID, mailBox, coord, tasks,
                   peerSend, nodeDowns, reply, caller, budget, served, received,
                   handled, connects>>

(***************************************************************************)
(* registrar.run, one select case per action.  The coordinator takes a     *)
(* request only when it is not blocked in a send of its own; select picks  *)
(* any channel that holds a request.  served logs what was taken.          *)
(***************************************************************************)
Ready(c) == coord = Idle /\ channels[c] # <<>>

Taken(c) == Receive(channels[c]).msg

Dequeue(chs, c) == [chs EXCEPT ![c] = Receive(@).rest]

Serve(c, req) ==
    [last |-> <<[ch |-> c, req |-> req]>>,
     seq |-> [served.seq EXCEPT ![c] = req.id]]

\* case p := <-r.channels.process
HandleProcess ==
    /\ Ready("process")
    /\ LET p == Taken("process")
       IN  /\ IF p.name # NoName /\ p.name \in DOMAIN names
              THEN /\ reply' = MapPut(reply, p.id, "name is taken")
                   /\ UNCHANGED <<names, processes>>
              ELSE /\ names' = IF p.name # NoName
                               THEN MapPut(names, p.name, p.process.self)
                               ELSE names
                   /\ processes' = MapPut(processes, p.process.self, p.process)
                   /\ reply' = MapPut(reply, p.id, "ok")
           /\ served' = Serve("process", p)
    /\ channels' = Dequeue(channels, "process")
    /\ UNCHANGED <<sup, connected, proc, peers, nextPID, mailBox, coord, tasks, peerSend, nodeDowns,
                   caller, budget, ncalls, sent, received, handled,
                   connects>>

\* the names left once process p is unregistered: the name p was created with
\* is deleted, then every name that maps to p's PID
NamesAfterUnregister(nms, p) ==
    LET n1 == IF p.name # NoName THEN MapDelete(nms, p.name) ELSE nms
    IN  [n \in {x \in DOMAIN n1 : n1[x] # p.self} |-> n1[n]]

\* case up := <-r.channels.unregisterProcess
HandleUnregisterProcess ==
    /\ Ready("unregisterProcess")
    /\ LET up == Taken("unregisterProcess")
       IN  /\ IF up.pid \in DOMAIN processes
              THEN /\ processes' = MapDelete(processes, up.pid)
                   /\ names' = NamesAfterUnregister(names, processes[up.pid])
              ELSE UNCHANGED <<names, processes>>
           /\ served' = Serve("unregisterProcess", up)
    /\ channels' = Dequeue(channels, "unregisterProcess")
    /\ UNCHANGED <<sup, connected, proc, peers, nextPID, mailBox, coord, tasks, peerSend, nodeDowns,
                   reply, caller, budget, ncalls, sent, received,
                   handled, connects>>

\* case n := <-r.channels.name, with the name check left out
HandleNameOverwrite ==
    /\ Ready("name")
    /\ LET n == Taken("name")
       IN  /\ names' = MapPut(names, n.name, n.pid)
           /\ reply' = MapPut(reply, n.id, "ok")
           /\ served' = Serve("name", n)
    /\ channels' = Dequeue(channels, "name")
    /\ UNCHANGED <<sup, connected, proc, processes, peers, nextPID, mailBox, coord, tasks, peerSend,
                   nodeDowns, caller, budget, ncalls, sent, received,
                   handled, connects>>

\* case n := <-r.channels.name
HandleName ==
    /\ Ready("name")
    /\ LET n == Taken("name")
       IN  /\ IF n.name \in DOMAIN names
              THEN /\ reply' = MapPut(reply, n.id, "name is taken")
                   /\ UNCHANGED names
              ELSE /\ names' = MapPut(names, n.name, n.pid)
                   /\ reply' = MapPut(reply, n.id, "ok")
           /\ served' = Serve("name", n)
    /\ channels' = Dequeue(channels, "name")
    /\ UNCHANGED <<sup, connected, proc, processes, peers, nextPID, mailBox, coord, tasks, peerSend,
                   nodeDowns, caller, budget, ncalls, sent, received,
                   handled, connects>>

\* case un := <-r.channels.unregisterName
HandleUnregisterName ==
    /\ Ready("unregisterName")
    /\ LET un == Taken("unregisterName")
       IN  /\ names' = MapDelete(names, un.name)
           /\ served' = Serve("unregisterName", un)
    /\ channels' = Dequeue(channels, "unregisterName")
    /\ UNCHANGED <<sup, connected, proc, processes, peers, nextPID, mailBox, coord, tasks, peerSend,
                   nodeDowns, reply, caller, budget, ncalls, sent,
                   received, handled, connects>>

\* the connect goroutines that wait for the answer to the registerPeer p
Answered(p) == {t \in tasks : t.st = "waitpeer" /\ t.req.id = p.task}

\* case p := <-r.channels.peer.  The err reply releases the connect goroutine
\* that sent the request, if one did.
HandlePeer ==
    /\ Ready("peer")
    /\ LET p == Taken("peer")
           err == IF p.name \in peers THEN "name is taken" ELSE "ok"
       IN  /\ peers' = IF p.name \in peers THEN peers ELSE peers \cup {p.name}
           /\ reply' = IF p.id = 0 THEN reply ELSE MapPut(reply, p.id, err)
           /\ tasks' = {IF t \in Answered(p)
                        THEN [t EXCEPT !.st = "requeue"] ELSE t : t \in tasks}
           /\ connected' =
                 IF p.name \notin peers
                 THEN [id \in DOMAIN connected \cup {t.req.id : t \in Answered(p)} |->
                          IF \E t \in Answered(p) : t.req.id = id
                          THEN (CHOOSE t \in Answered(p) : t.req.id = id).req.retries + 1
                          ELSE connected[id]]
                 ELSE connected
           /\ served' = Serve("peer", p)
    /\ channels' = Dequeue(channels, "peer")
    /\ UNCHANGED <<sup, proc, names, processes, nextPID, mailBox, coord, peerSend,
                   nodeDowns, caller, budget, ncalls, sent, received,
                   handled, connects>>

\* case up := <-r.channels.unregisterPeer
HandleUnregisterPeer ==
    /\ Ready("unregisterPeer")
    /\ LET up == Taken("unregisterPeer")
       IN  /\ IF up.name \in peers
              THEN /\ nodeDowns' = Append(nodeDowns, up.name)
                   /\ peers' = peers \ {up.name}
              ELSE UNCHANGED <<nodeDowns, peers>>
           /\ served' = Serve("unregisterPeer", up)
    /\ channels' = Dequeue(channels, "unregisterPeer")
    /\ UNCHANGED <<sup, connected, proc, names, processes, nextPID, mailBox, coord, tasks, peerSend,
                   reply, caller, budget, ncalls, sent, received,
                   handled, connects>>

(***************************************************************************)
(* p.mailBox <- etf.Tuple{from, message}: the coordinator pushes the tuple,*)
(* or stays blocked in the send while the mailbox is full.                 *)
(***************************************************************************)
MailboxSize(opt) == IF opt > 0 THEN opt ELSE DefaultProcessMailboxSize

PushFront(box, tuple) == <<tuple>> \o box

Push(box, tuple) == Append(box, tuple)

Deliver(p, tuple) ==
    IF Len(mailBox[p.self]) < MailboxSize(p.mailboxSize)
    THEN /\ mailBox' = [mailBox EXCEPT ![p.self] = Push(@, tuple)]
         /\ coord' = Idle
    ELSE /\ coord' = [st |-> "send", p |-> p, tuple |-> tuple]
         /\ UNCHANGED mailBox

\* the blocked send completes once the process has taken a message
MailboxSendCompletes ==
    /\ coord.st = "send"
    /\ Len(mailBox[coord.p.self]) < MailboxSize(coord.p.mailboxSize)
    /\ mailBox' = [mailBox EXCEPT ![coord.p.self] = Push(@, coord.tuple)]
    /\ coord' = Idle
    /\ UNCHANGED <<sup, connected, proc, names, processes, peers, channels, nextPID, tasks, peerSend,
                   nodeDowns, reply, caller, budget, ncalls, sent, served,
                   received, handled, connects>>

\* the process's own loop: case msg := <-p.mailBox
ProcessReceive(pid) ==
    /\ mailBox[pid] # <<>>
    /\ mailBox' = [mailBox EXCEPT ![pid] = Tail(@)]
    /\ received' = [received EXCEPT ![pid] = Append(@, Head(mailBox[pid]))]
    /\ UNCHANGED <<sup, connected, proc, names, processes, peers, channels, nextPID, coord, tasks,
                   peerSend, nodeDowns, reply, caller, budget, ncalls,
                   sent, served, handled, connects>>

(***************************************************************************)
(* r.route called by the coordinator itself, after it took a request from  *)
(* chs: the send blocks the coordinator for good when the channel is full, *)
(* as nothing else receives from it.                                       *)
(***************************************************************************)
Reroute(chs, from, to, message, id) ==
    LET c == RouteChannel(to)
    IN  IF c = "none"
        THEN /\ channels' = chs
             /\ UNCHANGED coord
        ELSE IF Len(chs[c]) < Capacity(c)
        THEN /\ channels' = route(chs, from, to, message, id)
             /\ UNCHANGED coord
        ELSE /\ channels' = chs
             /\ coord' = [st |-> "blocked", ch |-> c]

(***************************************************************************)
(* go func() { r.node.connect(node); req.retries++; channel <- req }()     *)
(***************************************************************************)
ConnectTask(kind, req, node) ==
    [kind |-> kind, req |-> req, node |-> node, st |-> "connect"]

Launch(kind, req, node) ==
    /\ tasks' = tasks \cup {ConnectTask(kind, req, node)}
    /\ connects' = MapPut(connects, req.id, Count(connects, req.id) + 1)

Retried(req) == [req EXCEPT !.retries = @ + 1]

\* the retry budget: a request is dropped once it has been retried 3 times
ExhaustedLater(req) == req.retries > 3

Exhausted(req) == req.retries > 2

\* the wire frame of a registered send, and of a raw message
RegSendFrame(from, to, message) ==
    [ctl |-> <<"REG_SEND", from, Atom(""), to>>, message |-> message]

RawFrame(message) == [message |-> message]

\* case bp := <-r.channels.routeByPid
HandleRouteByPid ==
    /\ Ready("routeByPid")
    /\ LET bp == Taken("routeByPid")
           chs == Dequeue(channels, "routeByPid")
       IN  /\ served' = Serve("routeByPid", bp)
           /\ channels' = chs
           /\ IF Exhausted(bp)
              THEN UNCHANGED <<mailBox, coord, tasks, connects, handled,
                               peerSend>>
              ELSE IF bp.pid.node = nodeName
              THEN /\ IF bp.pid \in DOMAIN processes
                      THEN Deliver(processes[bp.pid], <<bp.from, bp.message>>)
                      ELSE UNCHANGED <<mailBox, coord>>
                   /\ UNCHANGED <<tasks, connects, handled, peerSend>>
              ELSE /\ handled' = MapPut(handled, bp.id, Count(handled, bp.id) + 1)
                   /\ IF bp.pid.node \notin peers
                      THEN /\ Launch("routeByPid", bp, bp.pid.node)
                           /\ UNCHANGED peerSend
                      ELSE /\ peerSend' = [peerSend EXCEPT ![bp.pid.node] =
                                  Append(@, RegSendFrame(bp.from, bp.pid, bp.message))]
                           /\ UNCHANGED <<tasks, connects>>
                   /\ UNCHANGED <<mailBox, coord>>
    /\ UNCHANGED <<sup, connected, proc, names, processes, peers, nextPID, nodeDowns, reply, caller,
                   budget, ncalls, sent, received>>

\* case bn := <-r.channels.routeByName
HandleRouteByName ==
    /\ Ready("routeByName")
    /\ LET bn == Taken("routeByName")
           chs == Dequeue(channels, "routeByName")
       IN  /\ served' = Serve("routeByName", bn)
           /\ IF bn.name \in DOMAIN names
              THEN Reroute(chs, bn.from, PidTerm(names[bn.name]), bn.message, bn.id)
              ELSE /\ channels' = chs
                   /\ UNCHANGED coord
    /\ UNCHANGED <<sup, connected, proc, names, processes, peers, nextPID, mailBox, tasks, peerSend,
                   nodeDowns, reply, caller, budget, ncalls, sent, received,
                   handled, connects>>

\* toNode of a tuple destination: the second element when it is an Atom, else
\* the type assertion .(string), which panics on any other type
TupleNode(tuple) ==
    CASE tuple[2].type = "atom" -> [ok |-> TRUE, node |-> tuple[2].atom]
      [] tuple[2].type = "string" -> [ok |-> TRUE, node |-> tuple[2].str]
      [] OTHER -> [ok |-> FALSE, node |-> ""]

\* case bt := <-r.channels.routeByTuple
HandleRouteByTuple ==
    /\ Ready("routeByTuple")
    /\ LET bt == Taken("routeByTuple")
           chs == Dequeue(channels, "routeByTuple")
           toNode == TupleNode(bt.tuple)
           toProcessName == bt.tuple[1]
       IN  /\ served' = Serve("routeByTuple", bt)
           /\ IF Exhausted(bt)
              THEN /\ channels' = chs
                   /\ UNCHANGED <<coord, tasks, connects, handled, peerSend>>
              ELSE IF ~toNode.ok
              THEN /\ channels' = chs
                   /\ coord' = [st |-> "panicked"]
                   /\ UNCHANGED <<tasks, connects, handled, peerSend>>
              ELSE IF toNode.node = nodeName
              THEN /\ Reroute(chs, bt.from, toProcessName, bt.message, bt.id)
                   /\ UNCHANGED <<tasks, connects, handled, peerSend>>
              ELSE /\ channels' = chs
                   /\ handled' = MapPut(handled, bt.id, Count(handled, bt.id) + 1)
                   /\ IF toNode.node \notin peers
                      THEN /\ Launch("routeByTuple", bt, toNode.node)
                           /\ UNCHANGED peerSend
                      ELSE /\ peerSend' = [peerSend EXCEPT ![toNode.node] =
                                  Append(@, RegSendFrame(bt.from, toProcessName,
                                                         bt.message))]
                           /\ UNCHANGED <<tasks, connects>>
                   /\ UNCHANGED coord
    /\ UNCHANGED <<sup, connected, proc, names, processes, peers, nextPID, mailBox, nodeDowns, reply,
                   caller, budget, ncalls, sent, received>>

\* case rw := <-r.channels.routeRaw
HandleRouteRaw ==
    /\ Ready("routeRaw")
    /\ LET rw == Taken("routeRaw")
       IN  /\ served' = Serve("routeRaw", rw)
           /\ IF Exhausted(rw)
              THEN UNCHANGED <<tasks, connects, handled, peerSend>>
              ELSE /\ handled' = MapPut(handled, rw.id, Count(handled, rw.id) + 1)
                   /\ IF rw.nodename \notin peers
                      THEN /\ Launch("routeRaw", rw, rw.nodename)
                           /\ UNCHANGED peerSend
                      ELSE /\ peerSend' = [peerSend EXCEPT ![rw.nodename] =
                                  Append(@, RawFrame(rw.message))]
                           /\ UNCHANGED <<tasks, connects>>
    /\ channels' = Dequeue(channels, "routeRaw")
    /\ UNCHANGED <<sup, connected, proc, names, processes, peers, nextPID, mailBox, coord, nodeDowns,
                   reply, caller, budget, ncalls, sent, received>>

(***************************************************************************)
(* The connect goroutine.  node.connect either fails, or establishes the   *)
(* connection and registers the peer through RegisterPeer, waiting for the *)
(* coordinator's answer; in both cases the goroutine then increments       *)
(* retries and sends the request back to the channel it came from.         *)
(***************************************************************************)
ConnectFails(t) ==
    /\ t.st = "connect"
    /\ tasks' = (tasks \ {t}) \cup {[t EXCEPT !.st = "requeue"]}
    /\ UNCHANGED <<sup, connected, proc, names, processes, peers, channels, nextPID, mailBox, coord,
                   peerSend, nodeDowns, reply, caller, budget, ncalls,
                   sent, served, received, handled, connects>>

ConnectSucceeds(t) ==
    /\ t.st = "connect"
    /\ HasRoom("peer")
    /\ channels' = Enqueue(channels, "peer",
                           [name |-> t.node, task |-> t.req.id, id |-> 0])
    /\ tasks' = (tasks \ {t}) \cup {[t EXCEPT !.st = "waitpeer"]}
    /\ UNCHANGED <<sup, connected, proc, names, processes, peers, nextPID, mailBox, coord, peerSend,
                   nodeDowns, reply, caller, budget, ncalls, sent, served,
                   received, handled, connects>>

Requeue(t) ==
    /\ t.st = "requeue"
    /\ HasRoom(t.kind)
    /\ channels' = Enqueue(channels, t.kind,
                           Retried(t.req))
    /\ tasks' = tasks \ {t}
    /\ UNCHANGED <<sup, connected, proc, names, processes, peers, nextPID, mailBox, coord, peerSend,
                   nodeDowns, reply, caller, budget, ncalls, sent, served,
                   received, handled, connects>>

(***************************************************************************)
(* The caller of the round trip RegisterName(n, p); UnregisterName(n);     *)
(* RegisterName(n, p2), one call after the other.                          *)
(***************************************************************************)
CallerRegisters ==
    /\ caller.pc \in {"register1", "register2"}
    /\ SendRegisterName(caller.n,
                        IF caller.pc = "register1" THEN caller.p ELSE caller.p2)
    /\ caller' = [caller EXCEPT !.pc = IF @ = "register1" THEN "wait1" ELSE "wait2",
                                !.id = ncalls + 1]
    /\ UNCHANGED <<sup, connected, proc>>

\* return <-req.err
CallerReturns ==
    /\ caller.pc \in {"wait1", "wait2"}
    /\ reply[caller.id] # "pending"
    /\ caller' = IF caller.pc = "wait1"
                 THEN [caller EXCEPT !.pc = "unregister", !.err1 = reply[caller.id]]
                 ELSE [caller EXCEPT !.pc = "done", !.err2 = reply[caller.id]]
    /\ UNCHANGED <<regVars, sup>>

CallerUnregisters ==
    /\ caller.pc = "unregister"
    /\ SendUnregisterName(caller.n)
    /\ caller' = [caller EXCEPT !.pc = "register2"]
    /\ UNCHANGED <<sup, connected, proc>>

(***************************************************************************)
(* Spec: the registry.  Callers issue register and unregister requests     *)
(* with any name and any PID; the coordinator serves them.                 *)
(***************************************************************************)
Init ==
    /\ InitRegistrar
    /\ budget = MaxCalls
    /\ caller = NoCaller
    /\ SupervisorUnused

Next ==
    \/ \E name \in Names \cup {NoName} : RegisterProcessExt(name, 1)
    \/ \E pid \in AnyPids : UnregisterProcess(pid)
    \/ \E name \in Names, pid \in AnyPids : RegisterName(name, pid)
    \/ \E name \in Names : UnregisterName(name)
    \/ HandleProcess
    \/ HandleUnregisterProcess
    \/ HandleName
    \/ HandleUnregisterName

Spec == Init /\ [][Next]_vars

(***************************************************************************)
(* RenameSpec: the registry with one name and local PIDs, and one call     *)
(* more than Spec, so that a process can be registered with a name, the    *)
(* name unregistered and registered again, and the process unregistered.   *)
(***************************************************************************)
RenameInit ==
    /\ InitRegistrar
    /\ budget = MaxCalls + 1
    /\ caller = NoCaller
    /\ SupervisorUnused

RenameNext ==
    \/ RegisterProcessExt("a", 1)
    \/ \E pid \in LocalPids : UnregisterProcess(pid)
    \/ \E pid \in LocalPids : RegisterName("a", pid)
    \/ UnregisterName("a")
    \/ HandleProcess
    \/ HandleUnregisterProcess
    \/ HandleName
    \/ HandleUnregisterName

RenameSpec == RenameInit /\ [][RenameNext]_vars

(***************************************************************************)
(* RoundTripSpec: one caller alone, for any name n and any PIDs p and p2.  *)
(***************************************************************************)
RoundTripInit ==
    /\ InitRegistrar
    /\ budget = 0
    /\ caller \in [pc : {"register1"}, n : Names, p : AnyPids, p2 : AnyPids,
                   id : {0}, err1 : {"none"}, err2 : {"none"}]
    /\ SupervisorUnused

RoundTripNext ==
    \/ CallerRegisters
    \/ CallerReturns
    \/ CallerUnregisters
    \/ HandleName
    \/ HandleUnregisterName

RoundTripSpec == RoundTripInit /\ [][RoundTripNext]_vars

(***************************************************************************)
(* RouteSpec: sends to local destinations, by PID, by name and by          *)
(* (name, node) tuple, to processes that callers register.                 *)
(***************************************************************************)
Senders == {NilPid, Pid(nodeName, startPID + 1)}

LocalDestinations ==
    {PidTerm(p) : p \in LocalPids}
        \cup {String("a"), Tuple(<<Atom("a"), Atom(nodeName)>>)}

RouteInit ==
    /\ InitRegistrar
    /\ budget = MaxRouteCalls
    /\ caller = NoCaller
    /\ SupervisorUnused

RouteNext ==
    \/ \E size \in 1..MaxMailbox : RegisterProcessExt("a", size)
    \/ \E from \in Senders, to \in LocalDestinations : Send(from, to)
    \/ HandleProcess
    \/ HandleRouteByPid
    \/ HandleRouteByName
    \/ HandleRouteByTuple
    \/ MailboxSendCompletes
    \/ \E pid \in LocalPids : ProcessReceive(pid)

RouteSpec == RouteInit /\ [][RouteNext]_vars

(***************************************************************************)
(* FullSpec: the coordinator has registered one process, named "a", and    *)
(* has not run since; meanwhile senders have made RouteChanCap sends to    *)
(* the PID of the process, which fill the routeByPid channel, and one send *)
(* to its name.  FullAfter is that state, call by call: call 1 is the      *)
(* RegisterProcessExt, calls 2 .. RouteChanCap + 1 are the sends to the    *)
(* PID and call RouteChanCap + 2 is the send to the name.                  *)
(***************************************************************************)
FullPid == Pid(nodeName, startPID + 1)

FullProcess == [self |-> FullPid, name |-> "a", mailboxSize |-> 1, env |-> 0]

FullRegistration == [name |-> "a", process |-> FullProcess, id |-> 1]

FullAfter ==
    /\ names = MapPut(EmptyMap, "a", FullPid)
    /\ processes = MapPut(EmptyMap, FullPid, FullProcess)
    /\ peers = {}
    /\ channels = [c \in ChanNames |->
          CASE c = "routeByPid" ->
                  [k \in 1..RouteChanCap |->
                      RouteRequest(NilPid, PidTerm(FullPid), k + 1, k + 1)]
            [] c = "routeByName" ->
                  <<RouteRequest(NilPid, String("a"), RouteChanCap + 2,
                                 RouteChanCap + 2)>>
            [] OTHER -> <<>>]
    /\ nextPID = startPID + 1
    /\ mailBox = [p \in LocalPids |-> <<>>]
    /\ coord = Idle
    /\ tasks = {}
    /\ peerSend = [n \in RemoteNodes |-> <<>>]
    /\ nodeDowns = <<>>
    /\ reply = MapPut(EmptyMap, 1, "ok")
    /\ ncalls = RouteChanCap + 2
    /\ sent = [id \in 2..(RouteChanCap + 2) |->
                  [from |-> NilPid,
                   to |-> IF id = RouteChanCap + 2 THEN String("a")
                                                   ELSE PidTerm(FullPid)]]
    /\ served = [last |-> <<[ch |-> "process", req |-> FullRegistration]>>,
                 seq |-> [c \in ChanNames |-> IF c = "process" THEN 1 ELSE 0]]
    /\ received = [p \in LocalPids |-> <<>>]
    /\ handled = EmptyMap
    /\ connects = EmptyMap
    /\ connected = EmptyMap
    /\ envHeap = <<>>
    /\ handle = NoHandle
    /\ nodeDone = FALSE
    /\ killed = {}
    /\ call = NoCall
    /\ replyChan = <<>>

FullInit ==
    /\ FullAfter
    /\ budget = RouteChanCap + 2 + MaxRouteCalls
    /\ caller = NoCaller
    /\ SupervisorUnused

FullNext ==
    \/ \E to \in {PidTerm(FullPid), String("a")} : Send(NilPid, to)
    \/ HandleRouteByPid
    \/ HandleRouteByName
    \/ MailboxSendCompletes
    \/ ProcessReceive(FullPid)

FullSpec == FullInit /\ [][FullNext]_vars

(***************************************************************************)
(* IllTypedSpec: sends whose destination is not a Pid, a string, an atom   *)
(* or a (name, node) pair of the expected types, among well-typed ones.    *)
(***************************************************************************)
IllTypedDestinations ==
    {IntTerm(7),
     Tuple(<<Atom("a")>>),
     Tuple(<<Atom("a"), Atom(nodeName), Atom("x")>>),
     Tuple(<<IntTerm(7), Atom(nodeName)>>),
     Tuple(<<Atom("a"), IntTerm(7)>>)}

WellTypedDestinations ==
    {PidTerm(Pid(nodeName, startPID + 1)),
     Tuple(<<Atom("a"), String(nodeName)>>)}

IllTypedInit ==
    /\ InitRegistrar
    /\ budget = MaxRouteCalls
    /\ caller = NoCaller
    /\ SupervisorUnused

IllTypedNext ==
    \/ \E to \in IllTypedDestinations \cup WellTypedDestinations :
          Send(NilPid, to)
    \/ HandleRouteByPid
    \/ HandleRouteByName
    \/ HandleRouteByTuple

IllTypedSpec == IllTypedInit /\ [][IllTypedNext]_vars

(***************************************************************************)
(* RemoteSpec: sends to a remote node, whose peer comes and goes.          *)
(***************************************************************************)
RemoteDestinations ==
    {PidTerm(p) : p \in RemotePids}
        \cup {Tuple(<<Atom("a"), Atom(n)>>) : n \in RemoteNodes}

RemoteInit ==
    /\ InitRegistrar
    /\ budget = MaxRemoteCalls
    /\ caller = NoCaller
    /\ SupervisorUnused

RemoteNext ==
    \/ \E to \in RemoteDestinations : Send(NilPid, to)
    \/ \E node \in RemoteNodes : routeRaw(node)
    \/ \E node \in RemoteNodes : RegisterPeer(node)
    \/ \E node \in RemoteNodes : UnregisterPeer(node)
    \/ HandleRouteByPid
    \/ HandleRouteByTuple
    \/ HandleRouteRaw
    \/ HandlePeer
    \/ HandleUnregisterPeer
    \/ \E t \in tasks : ConnectFails(t)
    \/ \E t \in tasks : ConnectSucceeds(t)
    \/ \E t \in tasks : Requeue(t)

RemoteSpec == RemoteInit /\ [][RemoteNext]_vars

(***************************************************************************)
(* The environment of a Process.  The env field is a Go map, a reference:  *)
(* it is modelled as an index into envHeap, 0 for the nil map.             *)
(***************************************************************************)
EnvNames == {"k"}
\* the values a process gives its own variables, and the values the holder
\* of a handle gives the variables of the handle
OwnValues == {1}
HolderValues == {2}

\* Process.SetEnv(name, value) on the Process struct p, with the maps of heap
SetEnv(p, heap, name, value) ==
    IF p.env = 0
    THEN [p |-> [p EXCEPT !.env = Len(heap) + 1],
          heap |-> Append(heap, MapPut(EmptyMap, name, value))]
    ELSE [p |-> p,
          heap |-> [heap EXCEPT ![p.env] = MapPut(@, name, value)]]

\* p.env as the keys and values it holds
Env(p, heap) == IF p.env = 0 THEN EmptyMap ELSE heap[p.env]

\* a process sets a variable of its own environment: it holds the pointer
\* that is in the processes map
ProcessSetEnv(pid, name, value) ==
    /\ pid \in DOMAIN processes
    /\ LET set == SetEnv(processes[pid], envHeap, name, value)
       IN  /\ processes' = [processes EXCEPT ![pid] = set.p]
           /\ envHeap' = set.heap
    /\ UNCHANGED <<sup, connected, handle, nodeDone, killed, call, replyChan, names, peers, channels, nextPID, mailBox, coord,
                   tasks, peerSend, nodeDowns, reply, caller, budget, ncalls,
                   sent, served, received, handled, connects>>

(***************************************************************************)
(* GetProcessByPid(pid), GetProcessByName(name): send the request on the   *)
(* commands channel, then wait for the reply.                              *)
(***************************************************************************)
GetProcessByPid(pid) ==
    /\ MayCall
    /\ HasRoom("commands")
    /\ channels' = Enqueue(channels, "commands",
                           [pid |-> pid, name |-> NoName, id |-> ncalls + 1])
    /\ Issued
    /\ UNCHANGED <<sup, connected, proc, names, processes, peers, nextPID, mailBox, coord,
                   tasks, peerSend, nodeDowns, reply, caller, budget, sent,
                   served, received, handled, connects>>

GetProcessByName(name) ==
    /\ MayCall
    /\ HasRoom("commands")
    /\ channels' = Enqueue(channels, "commands",
                           [pid |-> NilPid, name |-> name, id |-> ncalls + 1])
    /\ Issued
    /\ UNCHANGED <<sup, connected, proc, names, processes, peers, nextPID, mailBox, coord,
                   tasks, peerSend, nodeDowns, reply, caller, budget, sent,
                   served, received, handled, connects>>

\* handleCommand: the PID the requestProcessDetails c is about
RequestedPid(c) ==
    IF c.name # NoName /\ c.name \in DOMAIN names THEN names[c.name] ELSE c.pid

\* unrefP := *p: every field is copied, the env field as the reference it is
Copy(p) == p

\* case cmd := <-r.channels.commands, and the caller's side of the reply:
\* the registered *Process or nil is sent; the caller copies the struct
HandleCommand ==
    /\ Ready("commands")
    /\ LET c == Taken("commands")
           pid == RequestedPid(c)
       IN  /\ handle' = IF pid \in DOMAIN processes
                        THEN Copy(processes[pid])
                        ELSE NoHandle
           /\ served' = Serve("commands", c)
    /\ channels' = Dequeue(channels, "commands")
    /\ UNCHANGED <<sup, connected, envHeap, nodeDone, killed, call, replyChan, names, processes, peers, nextPID, mailBox, coord,
                   tasks, peerSend, nodeDowns, reply, caller, budget, ncalls,
                   sent, received, handled, connects>>

\* the caller of GetProcessBy... calls SetEnv on the copy it was given
HandleSetEnv(name, value) ==
    /\ handle # NoHandle
    /\ LET set == SetEnv(handle, envHeap, name, value)
       IN  /\ handle' = set.p
           /\ envHeap' = set.heap
    /\ UNCHANGED <<sup, connected, nodeDone, killed, call, replyChan, names, processes,
                   peers, channels, nextPID, mailBox, coord, tasks, peerSend,
                   nodeDowns, reply, caller, budget, ncalls, sent, served,
                   received, handled, connects>>

\* the caller of GetProcessBy... assigns a field of the copy it was given
HandleSetName(name) ==
    /\ handle # NoHandle
    /\ handle' = [handle EXCEPT !.name = name]
    /\ UNCHANGED <<sup, connected, envHeap, nodeDone, killed, call, replyChan, names, processes, peers, channels, nextPID,
                   mailBox, coord, tasks, peerSend, nodeDowns, reply, caller,
                   budget, ncalls, sent, served, received, handled, connects>>

(***************************************************************************)
(* HandleSpec: processes are registered and set their environment, and     *)
(* callers look them up and change the copies they get.                    *)
(***************************************************************************)
HandleInit ==
    /\ InitRegistrar
    /\ budget = MaxCalls
    /\ caller = NoCaller
    /\ SupervisorUnused

HandleNext ==
    \/ \E name \in Names \cup {NoName} :
          RegisterProcessExt(name, DefaultProcessMailboxSize)
    \/ HandleProcess
    \/ \E pid \in LocalPids, name \in EnvNames, value \in OwnValues :
          ProcessSetEnv(pid, name, value)
    \/ \E pid \in LocalPids : GetProcessByPid(pid)
    \/ \E name \in Names : GetProcessByName(name)
    \/ HandleCommand
    \/ \E name \in EnvNames, value \in HolderValues : HandleSetEnv(name, value)
    \/ \E name \in Names : HandleSetName(name)

HandleSpec == HandleInit /\ [][HandleNext]_vars

(***************************************************************************)
(* The end of the node.  The context of a process is a child of the        *)
(* node's context: it is done once the node's is, or once its Kill was     *)
(* called.                                                                 *)
(***************************************************************************)
Done(pid) == nodeDone \/ pid \in killed

\* the node's context is cancelled
NodeStops ==
    /\ ~nodeDone
    /\ nodeDone' = TRUE
    /\ UNCHANGED <<sup, connected, envHeap, handle, killed, call, replyChan, names,
                   processes, peers, channels, nextPID, mailBox, coord, tasks,
                   peerSend, nodeDowns, reply, caller, budget, ncalls, sent,
                   served, received, handled, connects>>

\* case <-r.node.context.Done() that returns at once
HandleDoneKillsNone ==
    /\ coord = Idle
    /\ nodeDone
    /\ killed' = killed
    /\ coord' = [st |-> "returned"]
    /\ UNCHANGED <<sup, connected, envHeap, handle, nodeDone, call, replyChan, names,
                   processes, peers, channels, nextPID, mailBox, tasks,
                   peerSend, nodeDowns, reply, caller, budget, ncalls, sent,
                   served, received, handled, connects>>

\* case <-r.node.context.Done(): Kill of every process of the map, return
HandleDone ==
    /\ coord = Idle
    /\ nodeDone
    /\ killed' = killed \cup DOMAIN processes
    /\ coord' = [st |-> "returned"]
    /\ UNCHANGED <<sup, connected, envHeap, handle, nodeDone, call, replyChan, names,
                   processes, peers, channels, nextPID, mailBox, tasks,
                   peerSend, nodeDowns, reply, caller, budget, ncalls, sent,
                   served, received, handled, connects>>

(***************************************************************************)
(* StopSpec: the registry and local sends, and the node stops at any time. *)
(***************************************************************************)
StopInit ==
    /\ InitRegistrar
    /\ budget = MaxCalls
    /\ caller = NoCaller
    /\ SupervisorUnused

StopNext ==
    \/ \E name \in Names \cup {NoName} : RegisterProcessExt(name, 1)
    \/ \E pid \in LocalPids : UnregisterProcess(pid)
    \/ \E name \in Names, pid \in LocalPids : RegisterName(name, pid)
    \/ \E pid \in LocalPids : Send(NilPid, PidTerm(pid))
    \/ HandleProcess
    \/ HandleUnregisterProcess
    \/ HandleName
    \/ HandleRouteByPid
    \/ MailboxSendCompletes
    \/ \E pid \in LocalPids : ProcessReceive(pid)
    \/ NodeStops
    \/ HandleDone

StopSpec == StopInit /\ [][StopNext]_vars

(***************************************************************************)
(* The supervisor (supervisor.go).  A child handle is the *Process that    *)
(* Node.Spawn returned, or nil.  A child that stops, or dies by itself,    *)
(* sends {EXIT, pid, reason} to the supervisor it is linked to.            *)
(***************************************************************************)
Strategies == {"one_for_one", "one_for_all", "rest_for_one", "simple_one_for_one"}
Restarts == {"permanent", "temporary", "transient"}
Reasons == {"normal", "shutdown", "kill"}

NoChild == [nil |-> TRUE]
Handle(pid) == [self |-> pid]

ExitMessage(pid, reason) ==
    [from |-> pid,
     message |-> [type |-> "tuple", tag |-> "EXIT", pid |-> pid, reason |-> reason]]
RestartMessage ==
    [from |-> NilPid, message |-> [type |-> "atom", atom |-> "$restart"]]

\* haveToDisableChild with the transient case testing for normal only
haveToDisableChildNormalOnly(restart, reason) ==
    CASE restart = "transient" -> reason = "normal"
      [] restart = "temporary" -> TRUE
      [] OTHER -> FALSE

\* haveToDisableChild(restart, reason)
haveToDisableChild(restart, reason) ==
    CASE restart = "transient" -> reason = "shutdown" \/ reason = "normal"
      [] restart = "temporary" -> TRUE
      [] OTHER -> FALSE

(***************************************************************************)
(* initChildren(parent, specs): spawns the children that have no handle    *)
(* and are not disabled, in spec order.  spawned is the number of          *)
(* processes spawned before.                                               *)
(***************************************************************************)
ToSpawn(chs, specs) ==
    {i \in DOMAIN specs : chs[i] = NoChild /\ ~specs[i].disabled}

initChildren(chs, specs, spawned) ==
    [i \in DOMAIN specs |->
        IF i \in ToSpawn(chs, specs)
        THEN Handle(Pid(nodeName, startPID + spawned
                          + Cardinality({j \in ToSpawn(chs, specs) : j <= i})))
        ELSE chs[i]]

(***************************************************************************)
(* The removal of terminated from waitTerminatingProcesses:                *)
(*     for i := range w { if w[i] == terminated { w[0] = w[i]; w = w[1:] }}*)
(* The range is over the length the slice had at the start (n); an index   *)
(* past the slice as it is now panics.  Indices here are 1-based.          *)
(***************************************************************************)
RECURSIVE WaitScan(_, _, _, _)
WaitScan(w, terminated, i, n) ==
    IF i > n THEN [ok |-> TRUE, w |-> w]
    ELSE IF i > Len(w) THEN [ok |-> FALSE, w |-> w]
    ELSE IF w[i] = terminated
         THEN WaitScan(Tail([w EXCEPT ![1] = w[i]]), terminated, i + 1, n)
         ELSE WaitScan(w, terminated, i + 1, n)

(***************************************************************************)
(* The loops of one_for_all (rest = FALSE: every other child) and of       *)
(* rest_for_one (rest = TRUE: the children after the terminated one), from *)
(* child i on.  acc holds the child specs, the waiting list, the children  *)
(* told to stop, isRest, and ok: FALSE once a nil handle is dereferenced.  *)
(***************************************************************************)
RECURSIVE StopLoopIgnoresRest(_, _, _, _, _)
RECURSIVE StopLoop(_, _, _, _, _)
StopLoopIgnoresRest(i, acc, terminated, reason, rest) ==
    IF i > Len(children) THEN acc
    ELSE IF children[i] = NoChild THEN [acc EXCEPT !.ok = FALSE]
    ELSE IF children[i].self = terminated
         THEN StopLoopIgnoresRest(i + 1,
                  [acc EXCEPT !.isRest = TRUE,
                              !.specs[i].disabled =
                                  haveToDisableChild(acc.specs[i].restart, reason)],
                  terminated, reason, rest)
    ELSE StopLoopIgnoresRest(i + 1,
                  [acc EXCEPT !.wait = Append(@, children[i].self),
                              !.stopped = @ \cup {children[i].self}],
                  terminated, reason, rest)

StopLoop(i, acc, terminated, reason, rest) ==
    IF i > Len(children) THEN acc
    ELSE IF children[i] = NoChild THEN [acc EXCEPT !.ok = FALSE]
    ELSE IF children[i].self = terminated
         THEN StopLoop(i + 1,
                  [acc EXCEPT !.isRest = TRUE,
                              !.specs[i].disabled =
                                  haveToDisableChild(acc.specs[i].restart, reason)],
                  terminated, reason, rest)
    ELSE IF ~rest \/ acc.isRest
         THEN StopLoop(i + 1,
                  [acc EXCEPT !.wait = Append(@, children[i].self),
                              !.stopped = @ \cup {children[i].self}],
                  terminated, reason, rest)
    ELSE StopLoop(i + 1, acc, terminated, reason, rest)

\* case etf.Atom("EXIT"), with box the mailbox left after the receive
HandleExit(terminated, reason, box) ==
    /\ exits' = Append(exits, terminated)
    /\ IF Len(waitTerminatingProcesses) > 0
       THEN LET r == WaitScan(waitTerminatingProcesses, terminated, 1,
                              Len(waitTerminatingProcesses))
            IN  /\ waitTerminatingProcesses' = r.w
                /\ svState' = IF r.ok THEN svState ELSE "panicked"
                /\ svMailBox' = IF r.ok /\ Len(r.w) = 0
                                THEN Append(box, RestartMessage)
                                ELSE box
                /\ UNCHANGED <<svSpec, stopping>>
       ELSE IF svSpec.strategy \in {"one_for_all", "rest_for_one"}
       THEN LET r == StopLoop(1, [specs |-> svSpec.children,
                                  wait |-> waitTerminatingProcesses,
                                  stopped |-> {}, isRest |-> FALSE, ok |-> TRUE],
                              terminated, reason,
                              svSpec.strategy = "rest_for_one")
            IN  /\ svSpec' = [svSpec EXCEPT !.children = r.specs]
                /\ waitTerminatingProcesses' = r.wait
                /\ stopping' = stopping \cup (r.stopped \cap alive)
                /\ svState' = IF r.ok THEN svState ELSE "panicked"
                /\ svMailBox' = box
       ELSE IF svSpec.strategy = "one_for_one"
       THEN /\ svState' = IF \E i \in DOMAIN children : children[i] = NoChild
                          THEN "panicked" ELSE svState
            /\ svMailBox' = box
            /\ UNCHANGED <<svSpec, waitTerminatingProcesses, stopping>>
       ELSE /\ svMailBox' = box
            /\ UNCHANGED <<svSpec, waitTerminatingProcesses, stopping, svState>>
    /\ UNCHANGED <<children, alive, svSpawned, died, now, restartTimes>>

\* case etf.Atom("$restart"): sv.initChildren(p, spec.children)
HandleRestart(box) ==
    /\ children' = initChildren(children, svSpec.children, svSpawned)
    /\ alive' = alive \cup {children'[i].self : i \in ToSpawn(children, svSpec.children)}
    /\ svSpawned' = svSpawned + Cardinality(ToSpawn(children, svSpec.children))
    /\ svMailBox' = box
    /\ restartTimes' = Append(restartTimes, now)
    /\ UNCHANGED <<svSpec, waitTerminatingProcesses, svState, stopping, exits, died,
                   now>>

\* one turn of the loop of Supervisor.loop: case msg := <-p.mailBox
SupervisorReceives ==
    /\ svState = "running"
    /\ svMailBox # <<>>
    /\ LET m == Head(svMailBox).message
           box == Tail(svMailBox)
       IN  IF m.type = "tuple" /\ m.tag = "EXIT"
           THEN HandleExit(m.pid, m.reason, box)
           ELSE HandleRestart(box)
    /\ UNCHANGED <<regVars, caller>>

\* case <-p.Context.Done(): return "shutdown"
SupervisorCancelled ==
    /\ svState = "running"
    /\ svState' = "shutdown"
    /\ UNCHANGED <<regVars, caller, svSpec, children, waitTerminatingProcesses,
                   svMailBox, alive, stopping, svSpawned, exits, died, now,
                   restartTimes>>

\* a running child terminates by itself
ChildExits(pid, reason) ==
    /\ pid \in alive
    /\ Len(died) < MaxDeaths
    /\ alive' = alive \ {pid}
    /\ stopping' = stopping \ {pid}
    /\ died' = Append(died, pid)
    /\ svMailBox' = Append(svMailBox, ExitMessage(pid, reason))
    /\ UNCHANGED <<regVars, caller, svSpec, children, waitTerminatingProcesses,
                   svState, svSpawned, exits, now, restartTimes>>

\* a child that was told Stop("shutdown") terminates with that reason
ChildStops(pid) ==
    /\ pid \in stopping
    /\ alive' = alive \ {pid}
    /\ stopping' = stopping \ {pid}
    /\ svMailBox' = Append(svMailBox, ExitMessage(pid, "shutdown"))
    /\ UNCHANGED <<regVars, caller, svSpec, children, waitTerminatingProcesses,
                   svState, svSpawned, exits, died, now, restartTimes>>

(***************************************************************************)
(* SupSpec: a supervisor with any strategy and any child specs, right      *)
(* after Supervisor.loop has run initChildren for the first time.          *)
(***************************************************************************)
ChildSpecs == [restart : Restarts, disabled : BOOLEAN]

\* Supervisor.loop up to its first turn, for a spec drawn from specs
SupStarts(specs) ==
    /\ InitRegistrar
    /\ budget = 0
    /\ caller = NoCaller
    /\ svSpec \in specs
    /\ children = initChildren([i \in DOMAIN svSpec.children |-> NoChild],
                               svSpec.children, 0)
    /\ alive = {children[i].self :
                   i \in ToSpawn([j \in DOMAIN svSpec.children |-> NoChild],
                                 svSpec.children)}
    /\ svSpawned = Cardinality(alive)
    /\ stopping = {}
    /\ waitTerminatingProcesses = <<>>
    /\ svMailBox = <<>>
    /\ svState = "running"
    /\ exits = <<>>
    /\ died = <<>>
    /\ now = 0
    /\ restartTimes = <<>>

SupInit ==
    \E n \in 1..MaxChildren :
        SupStarts([children : [1..n -> ChildSpecs], strategy : Strategies,
                   intensity : {SupervisorRestartIntensity},
                   period : {SupervisorRestartPeriod}])

SupNext ==
    \/ SupervisorReceives
    \/ SupervisorCancelled
    \/ \E pid \in alive, reason \in Reasons : ChildExits(pid, reason)
    \/ \E pid \in stopping : ChildStops(pid)

SupSpec == SupInit /\ [][SupNext]_vars

(***************************************************************************)
(* RateSpec: supervisors whose strategy has a small restart intensity and  *)
(* period, with a clock.  Every child is started.                          *)
(***************************************************************************)
StartedChildSpecs == [restart : Restarts, disabled : {FALSE}]

\* a tick of the clock
Tick ==
    /\ now < MaxTicks
    /\ now' = now + 1
    /\ UNCHANGED <<regVars, caller, svSpec, children, waitTerminatingProcesses,
                   svMailBox, svState, alive, stopping, svSpawned, exits, died,
                   restartTimes>>

RateInit ==
    \E n \in 1..MaxChildren :
        SupStarts([children : [1..n -> StartedChildSpecs], strategy : Strategies,
                   intensity : 0..MaxIntensity, period : 1..MaxPeriod])

RateNext ==
    \/ SupNext
    \/ Tick

RateSpec == RateInit /\ [][RateNext]_vars

(***************************************************************************)
(* Process.CallWithTimeout (process.go).  A reference is the Id of an      *)
(* etf.Ref: three numbers.  The timeout and the clock are in seconds.      *)
(***************************************************************************)
CallRef == <<1, 0, 0>>
    \* the reference Node.MakeRef gives the call
Refs == {CallRef, <<2, 0, 0>>, <<1, 0, 1>>}
    \* the references replies carry
CallTimeouts == {MaxTicks}
    \* the timeouts calls are made with

\* the check of the message Ref: ref is the call's, ref1 the reply's
RefCheck(ref, ref1) ==
    /\ Len(ref) = 3
    /\ ref[1] = ref1[1]
    /\ ref[2] = ref1[2]
    /\ ref[3] = ref1[3]

\* CallWithTimeout up to the first select: MakeRef, Send of the $gen_call
\* message, and the timer of the first turn of the loop
CallWithTimeout(pid, to, timeout) ==
    /\ call = NoCall
    /\ MayCall
    /\ RouteChannel(to) # "none" => HasRoom(RouteChannel(to))
    /\ channels' = route(channels, pid, to, ncalls + 1, ncalls + 1)
    /\ sent' = MapPut(sent, ncalls + 1, [from |-> pid, to |-> to])
    /\ Issued
    /\ call' = [st |-> "waiting", pid |-> pid, ref |-> CallRef,
                timeout |-> timeout, began |-> now, armed |-> now]
    /\ UNCHANGED <<sup, connected, envHeap, handle, nodeDone, killed, replyChan, names,
                   processes, peers, nextPID, mailBox, coord, tasks, peerSend,
                   nodeDowns, reply, caller, budget, served, received, handled,
                   connects>>

\* a reply {ref, value} is put in the reply channel of the process
Reply(ref) ==
    /\ Len(replyChan) < ReplyChanCap
    /\ replyChan' = Append(replyChan, [ref |-> ref, val |-> "ok"])
    /\ UNCHANGED <<sup, connected, envHeap, handle, nodeDone, killed, call, names,
                   processes, peers, channels, nextPID, mailBox, coord, tasks,
                   peerSend, nodeDowns, reply, caller, budget, ncalls, sent,
                   served, received, handled, connects>>

\* the call's result
Returned(result, ref1) ==
    [st |-> "done", pid |-> call.pid, ref |-> call.ref,
     timeout |-> call.timeout, began |-> call.began, result |-> result,
     by |-> ref1, at |-> now]

\* case m := <-p.reply: return the value if the Ref is the call's; if not,
\* the next turn of the loop, whose select makes a new timer
CallTakesReply ==
    /\ call.st = "waiting"
    /\ replyChan # <<>>
    /\ LET m == Head(replyChan)
       IN  call' = IF RefCheck(call.ref, m.ref)
                   THEN Returned(m.val, m.ref)
                   ELSE [call EXCEPT !.armed = now]
    /\ replyChan' = Tail(replyChan)
    /\ UNCHANGED <<sup, connected, envHeap, handle, nodeDone, killed, names, processes,
                   peers, channels, nextPID, mailBox, coord, tasks, peerSend,
                   nodeDowns, reply, caller, budget, ncalls, sent, served,
                   received, handled, connects>>

\* the timer of this turn of the loop has fired
TimerFired == call.st = "waiting" /\ now >= call.armed + call.timeout

\* case <-time.After(...): return nil, errors.New("timeout")
CallTimesOut ==
    /\ TimerFired
    /\ call' = Returned("timeout", <<>>)
    /\ UNCHANGED <<sup, connected, envHeap, handle, nodeDone, killed, replyChan, names,
                   processes, peers, channels, nextPID, mailBox, coord, tasks,
                   peerSend, nodeDowns, reply, caller, budget, ncalls, sent,
                   served, received, handled, connects>>

\* case <-p.Context.Done(): return nil, errors.New("stopped")
CallStopped ==
    /\ call.st = "waiting"
    /\ Done(call.pid)
    /\ call' = Returned("stopped", <<>>)
    /\ UNCHANGED <<sup, connected, envHeap, handle, nodeDone, killed, replyChan, names,
                   processes, peers, channels, nextPID, mailBox, coord, tasks,
                   peerSend, nodeDowns, reply, caller, budget, ncalls, sent,
                   served, received, handled, connects>>

\* p.Kill(): the context of the process is cancelled
Kill(pid) ==
    /\ pid \notin killed
    /\ killed' = killed \cup {pid}
    /\ UNCHANGED <<sup, connected, envHeap, handle, nodeDone, call, replyChan, names,
                   processes, peers, channels, nextPID, mailBox, coord, tasks,
                   peerSend, nodeDowns, reply, caller, budget, ncalls, sent,
                   served, received, handled, connects>>

(***************************************************************************)
(* CallSpec: one process makes one call; replies of any reference come,    *)
(* time passes and the process may be killed.                              *)
(***************************************************************************)
CallInit ==
    /\ InitRegistrar
    /\ budget = 1
    /\ caller = NoCaller
    /\ SupervisorUnused

CallNext ==
    \/ \E pid \in LocalPids, timeout \in CallTimeouts :
          CallWithTimeout(pid, PidTerm(Pid(nodeName, startPID + 1)), timeout)
    \/ \E ref \in Refs : Reply(ref)
    \/ CallTakesReply
    \/ CallTimesOut
    \/ CallStopped
    \/ \E pid \in LocalPids : Kill(pid)
    \/ Tick

CallSpec == CallInit /\ [][CallNext]_vars

(***************************************************************************)
(* Properties of the registry.                                             *)
(***************************************************************************)

\* handleCommand for a request by name: the Process found, or none
ProcessByName(nms, procs, name) ==
    IF name \in DOMAIN nms /\ nms[name] \in DOMAIN procs
    THEN procs[nms[name]]
    ELSE [self |-> NilPid, name |-> NoName, mailboxSize |-> 0, env |-> 0]

\* C1: in every reachable state of the registrar, every value in names is a
\* key of processes.
C1_NamesPointToProcesses ==
    \A n \in DOMAIN names : names[n] \in DOMAIN processes

\* C2: in every reachable state of the registrar, no two distinct names map
\* to the same PID.
C2_PidNamedOnce ==
    \A n1, n2 \in DOMAIN names : names[n1] = names[n2] => n1 = n2

\* the coordinator takes request r from channel c in this step
Serves(c) ==
    /\ Ready(c)
    /\ served' = Serve(c, Taken(c))

LastServed == served.last[1]

C4_NoNameAfterUnregister ==
    (served.last # <<>> /\ LastServed.ch = "unregisterProcess")
        => \A n \in DOMAIN names : names[n] # LastServed.req.pid

\* C5: the caller that ran RegisterName(n, p), UnregisterName(n),
\* RegisterName(n, p2) in this order got no error from the second
\* RegisterName, and names[n] = p2 afterwards.
C5_RoundTripSucceeds ==
    caller.pc = "done"
        => /\ caller.err2 = "ok"
           /\ caller.n \in DOMAIN names
           /\ names[caller.n] = caller.p2

Observed(p) == received[p] \o mailBox[p]

SentByPid(tuple) == sent[tuple[2]].to.type = "pid"

\* C6: two sends of one sender to the same local PID reach the mailbox of
\* that process in the order of the calls.
C6_PidSendsInOrder ==
    \A p \in LocalPids : \A i, j \in DOMAIN Observed(p) :
        (/\ i < j
         /\ Observed(p)[i][1] = Observed(p)[j][1]
         /\ SentByPid(Observed(p)[i])
         /\ SentByPid(Observed(p)[j]))
            => Observed(p)[i][2] < Observed(p)[j][2]

\* a process has taken a message from its mailbox and has observed two
\* sends by PID of one sender
C6_Witness ==
    \E p \in LocalPids :
        /\ received[p] # <<>>
        /\ \E i, j \in DOMAIN Observed(p) :
              /\ i < j
              /\ Observed(p)[i][1] = Observed(p)[j][1]
              /\ SentByPid(Observed(p)[i])
              /\ SentByPid(Observed(p)[j])

\* C7: sends of one sender to the same local process reach its mailbox in
\* the order of the calls, however each send addresses the process.
C7_AnySendsInOrder ==
    \A p \in LocalPids : \A i, j \in DOMAIN Observed(p) :
        (i < j /\ Observed(p)[i][1] = Observed(p)[j][1])
            => Observed(p)[i][2] < Observed(p)[j][2]

\* C15: whatever destination a send is given, the coordinator does not
\* crash: it drops the message and keeps serving the requests that follow.
C15_NeverCrashes == coord.st # "panicked"

(***************************************************************************)
(* Properties of remote routing.                                           *)
(***************************************************************************)
RemoteChannels == {"routeByPid", "routeByTuple", "routeRaw"}

\* the frames pushed to the peers for call id
Frames(id) ==
    {<<n, k>> \in RemoteNodes \X (1..MaxRemoteCalls + 100) :
        k \in DOMAIN peerSend[n] /\ peerSend[n][k].message = id}

C8_Budget ==
    /\ \A id \in DOMAIN handled :
          /\ handled[id] <= 3
          /\ Count(connects, id) + Cardinality(Frames(id)) = handled[id]
          /\ Cardinality(Frames(id)) <= 1
    /\ \A c \in RemoteChannels : \A k \in DOMAIN channels[c] :
          /\ channels[c][k].retries <= 3
          /\ channels[c][k].retries = Count(connects, channels[c][k].id)
    /\ \A t \in tasks : t.req.retries + 1 = connects[t.req.id]

C8_DropHasNoEffect ==
    \A c \in RemoteChannels :
        (Serves(c) /\ Taken(c).retries = 3)
            => UNCHANGED <<names, processes, peers, mailBox, tasks, peerSend,
                           handled, connects, nodeDowns>>

\* C8: a request for a remote node is handled at most 3 times; each
\* handling that finds no peer launches one connect goroutine, which sends
\* the request back with retries + 1 whether or not the connect failed; the
\* request that arrives with retries = 3 is dropped: no connect, no frame,
\* no map changed.
C8_RetryBudget == []C8_Budget /\ [][C8_DropHasNoEffect]_vars

\* a request was handled 3 times, each time with a connect, and was then
\* dropped
C8_Witness ==
    /\ served.last # <<>>
    /\ LastServed.ch \in RemoteChannels
    /\ LastServed.req.retries = 3
    /\ handled[LastServed.req.id] = 3
    /\ connects[LastServed.req.id] = 3
    /\ Frames(LastServed.req.id) = {}

(***************************************************************************)
(* Properties of the supervisor.                                           *)
(***************************************************************************)
FirstPids(n) == {Pid(nodeName, startPID + i) : i \in 1..n}

\* three permanent children [A, B, C] under one_for_all; B alone died by
\* itself; the loop has taken the EXIT of each of the three and has nothing
\* left to take
OneForAllSettled ==
    /\ svSpec.strategy = "one_for_all"
    /\ Len(svSpec.children) = 3
    /\ \A i \in 1..3 : svSpec.children[i] = [restart |-> "permanent",
                                             disabled |-> FALSE]
    /\ died = <<Pid(nodeName, startPID + 2)>>
    /\ FirstPids(3) \subseteq Range(exits)
    /\ stopping = {}
    /\ svMailBox = <<>>

\* C10: under one_for_all with permanent children [A, B, C], once B has
\* terminated and the EXITs of A and C have been received and $restart
\* handled, the three child slots hold newly spawned, running processes.
C10_OneForAllRestarts ==
    OneForAllSettled
        => \A i \in 1..3 :
              /\ children[i] # NoChild
              /\ children[i].self \notin FirstPids(3)
              /\ children[i].self \in alive

\* the loop takes the EXIT of pid in this step
TakesExit(pid) == exits' = Append(exits, pid)

\* the number of $restart messages in a mailbox
RestartsIn(box) == Cardinality({k \in DOMAIN box : box[k] = RestartMessage})

\* C11: while the pending-terminators list is non-empty, the EXIT of a PID
\* in it removes exactly that PID and no other, and $restart is posted to
\* the supervisor's mailbox, once, exactly when the list becomes empty.
C11_WaitRemovesExactly ==
    [][\A pid \in Range(waitTerminatingProcesses) :
          TakesExit(pid)
              => /\ svState' = "running"
                 /\ Range(waitTerminatingProcesses')
                        = Range(waitTerminatingProcesses) \ {pid}
                 /\ Len(waitTerminatingProcesses')
                        = Len(waitTerminatingProcesses) - 1
                 /\ RestartsIn(svMailBox') =
                        RestartsIn(Tail(svMailBox))
                          + (IF waitTerminatingProcesses' = <<>> THEN 1 ELSE 0)]_vars

\* the loop takes, with nothing pending, the EXIT with this reason of the
\* child at index i
TakesChildExit(i, reason) ==
    /\ waitTerminatingProcesses = <<>>
    /\ children[i] # NoChild
    /\ svMailBox # <<>>
    /\ Head(svMailBox) = ExitMessage(children[i].self, reason)
    /\ TakesExit(children[i].self)

\* C12: under one_for_one, when the EXIT of a child arrives with nothing
\* pending, the supervisor stops no other child, sets the child's disabled
\* flag to haveToDisableChild(restart, reason) and posts $restart to itself.
C12_OneForOneRestarts ==
    [][\A i \in DOMAIN children : \A reason \in Reasons :
          (svSpec.strategy = "one_for_one" /\ TakesChildExit(i, reason))
              => /\ stopping' = stopping
                 /\ waitTerminatingProcesses' = <<>>
                 /\ svSpec'.children[i].disabled =
                        haveToDisableChild(svSpec.children[i].restart, reason)
                 /\ RestartsIn(svMailBox') = RestartsIn(Tail(svMailBox)) + 1]_vars

\* C13: the flag the loop computes with haveToDisableChild(restart, reason)
\* for the terminated child is true for a temporary child whatever the
\* reason, true for a transient child iff the reason is normal or shutdown,
\* and false for a permanent child whatever the reason.
C13_DisableTable ==
    [][\A i \in DOMAIN children : \A reason \in Reasons :
          (/\ svSpec.strategy \in {"one_for_all", "rest_for_one"}
           /\ \A j \in 1..(i - 1) : children[j] # NoChild
           /\ TakesChildExit(i, reason))
              => LET d == svSpec'.children[i].disabled
                     r == svSpec.children[i].restart
                 IN  /\ r = "temporary" => d
                     /\ r = "transient" => (d <=> reason \in {"normal", "shutdown"})
                     /\ r = "permanent" => ~d]_vars

\* the loop has taken the EXIT of a started transient child and disabled it
C13_Witness ==
    /\ svState = "running"
    /\ \E i \in DOMAIN children :
          /\ children[i] # NoChild
          /\ children[i].self \in Range(exits)
          /\ svSpec.children[i].restart = "transient"
          /\ svSpec.children[i].disabled

\* the restarts of the last period ticks
RecentRestarts ==
    {k \in DOMAIN restartTimes : restartTimes[k] > now - svSpec.period}

\* C14: when more than intensity restarts have occurred within period
\* ticks, the supervisor has terminated with reason shutdown.
C14_RateLimit ==
    Cardinality(RecentRestarts) > svSpec.intensity => svState = "shutdown"

(***************************************************************************)
(* Properties of process handles (HandleSpec).                             *)
(***************************************************************************)
\* the Process the registrar holds for pid, its environment by content
Registered(procs, heap, pid) ==
    [self |-> procs[pid].self, name |-> procs[pid].name,
     mailboxSize |-> procs[pid].mailboxSize, env |-> Env(procs[pid], heap)]

\* the holder of a handle changes it: a field, or its environment through
\* SetEnv
ChangesHandle ==
    /\ handle # NoHandle
    /\ \/ \E name \in Names :
            /\ handle' = [handle EXCEPT !.name = name]
            /\ handle' # handle
            /\ envHeap' = envHeap
       \/ \E name \in EnvNames, value \in HolderValues :
            /\ handle' = SetEnv(handle, envHeap, name, value).p
            /\ envHeap' = SetEnv(handle, envHeap, name, value).heap
            /\ envHeap' # envHeap

\* C16: GetProcessByName and GetProcessByPid return none if the process is
\* absent and otherwise a handle whose PID is the registered one; a change
\* made to the returned handle, to a field or through SetEnv, does not change
\* the Process held in the processes map.
C16_HandleIsACopy ==
    [][/\ Serves("commands") =>
            LET c == Taken("commands")
                pid == RequestedPid(c)
            IN  IF pid \in DOMAIN processes
                THEN handle' # NoHandle /\ handle'.self = pid
                ELSE handle' = NoHandle
       /\ ChangesHandle =>
            \A pid \in DOMAIN processes :
                Registered(processes', envHeap', pid)
                    = Registered(processes, envHeap, pid)]_vars

(***************************************************************************)
(* Properties of the end of the node (StopSpec).                           *)
(***************************************************************************)
\* the coordinator serves no request and nothing it does takes effect: no
\* map changes, no mailbox grows, nothing is sent to a peer
NothingServed ==
    /\ served' = served
    /\ UNCHANGED <<names, processes, peerSend>>
    /\ DOMAIN mailBox' = DOMAIN mailBox
    /\ \A pid \in DOMAIN mailBox : Len(mailBox'[pid]) <= Len(mailBox[pid])

\* C17 as claimed: once the node's cancellation signal has fired the
\* coordinator serves no further request (no map mutation, mailbox delivery
\* or peer send), and when it has returned it has signalled cancellation to
\* every process in the processes map.
C17_NothingAfterSignal ==
    /\ [](coord.st = "returned" => DOMAIN processes \subseteq killed)
    /\ [][nodeDone => NothingServed]_vars

\* C17: once the coordinator has taken the node's cancellation signal it has
\* signalled cancellation to every process in the processes map and has
\* returned, and no request is served after that (no map mutation, mailbox
\* delivery or peer send).  Requests may be served between the firing of the
\* signal and the turn of the loop that takes it.
C17_NothingAfterReturn ==
    /\ [](coord.st = "returned" => DOMAIN processes \subseteq killed)
    /\ [][coord.st = "returned" => NothingServed]_vars

\* the coordinator has returned after killing a process, and requests are
\* left in its channels
C17_Witness ==
    /\ coord.st = "returned"
    /\ killed # {}
    /\ \E c \in ChanNames : channels[c] # <<>>

(***************************************************************************)
(* Properties of calls (CallSpec).                                         *)
(***************************************************************************)
\* the per-call timeout has elapsed since the call began
Elapsed == now >= call.began + call.timeout

\* C18: CallWithTimeout returns a value only for a reply whose reference is
\* the call's own; it returns 'timeout' only once the timeout has elapsed
\* since the call began and 'stopped' only when the process's cancellation
\* has fired; replies with another reference do not change the outcome: once
\* the timeout has elapsed since the call began, a call still waiting can
\* end with 'timeout'.
C18_CallOutcome ==
    /\ call.st = "done" =>
          /\ call.result = "ok" => call.by = call.ref
          /\ call.result = "timeout" => call.at >= call.began + call.timeout
          /\ call.result = "stopped" => Done(call.pid)
    /\ (call.st = "waiting" /\ Elapsed) => TimerFired

(***************************************************************************)
(* Properties of the PID allocator (Spec).                                 *)
(***************************************************************************)
\* the process registrations that wait in the channel
Registering == {channels["process"][k] : k \in DOMAIN channels["process"]}

\* the PIDs allocated that are still in use: of a registration that waits,
\* or a key of processes
Allocated == {r.process.self : r \in Registering} \cup DOMAIN processes

After(i) == [k \in 1..(Len(children) - i) |-> children[i + k].self]

C21_UnregisterRemovesOnlyOwnNames ==
    [][Serves("unregisterProcess") =>
          LET p == Taken("unregisterProcess").pid
          IN  /\ \A n \in DOMAIN names :
                    names[n] # p => (n \in DOMAIN names' /\ names'[n] = names[n])
              /\ DOMAIN names' \subseteq DOMAIN names
              /\ DOMAIN processes' = DOMAIN processes \ {p}
              /\ \A q \in DOMAIN processes' : processes'[q] = processes[q]
              /\ peers' = peers]_vars

(***************************************************************************)
(* Properties of the coordinator's own sends (FullSpec).                   *)
(***************************************************************************)
\* C22: the coordinator never blocks on its own input queues: the send of
\* the router that it re-enters from route-by-name or from a local
\* route-by-tuple always completes, also when senders have filled the queue.
C22_NeverBlocksOnOwnQueue == coord.st # "blocked"

\* C23: handling an EXIT message never faults the supervisor loop, for any
\* child specs (disabled children, which have no handle, included) and any
\* order of child deaths: the loop neither dereferences a nil child handle
\* nor indexes the pending list outside its current length.
C23_ExitNeverFaults == svState # "panicked"

(***************************************************************************)
(* Properties of the connect attempts (RemoteSpec).                        *)
(***************************************************************************)
\* the node the request req of channel c is for
Destination(c, req) ==
    CASE c = "routeByPid" -> req.pid.node
      [] c = "routeByTuple" -> TupleNode(req.tuple).node
      [] c = "routeRaw" -> req.nodename

\* the coordinator takes from channel c a request that came back from a
\* connect attempt which registered the peer, and the peer is registered
BackFromConnect(c) ==
    /\ Serves(c)
    /\ Taken(c).id \in DOMAIN connected
    /\ connected[Taken(c).id] = Taken(c).retries
    /\ Destination(c, Taken(c)) \in peers

\* the message of the request taken from c is pushed to the peer's sink in
\* this step, for the first time
PushedNow(c) ==
    LET node == Destination(c, Taken(c))
    IN  /\ Frames(Taken(c).id) = {}
        /\ Len(peerSend'[node]) = Len(peerSend[node]) + 1
        /\ SubSeq(peerSend'[node], 1, Len(peerSend[node])) = peerSend[node]
        /\ Last(peerSend'[node]).message = Taken(c).message

\* C24: when a connect attempt launched for a queued remote
\* message registered the peer and the peer is still registered, the message
\* is pushed to the peer's sink, once, whichever of the 3 attempts it was.
C24_PushedAfterAnyConnect ==
    [][\A c \in RemoteChannels : BackFromConnect(c) => PushedNow(c)]_vars

=============================================================================
